---- MODULE Spec2Model ----
(***************************************************************************)
(* Model of numba/npyufunc/parallel.py: the parallel (g)ufunc dispatcher   *)
(* emitted by build_ufunc_kernel / build_gufunc_kernel, the process-level  *)
(* set-up (_init, _launch_threads, the two build methods) and the worker   *)
(* pool (numba.npyufunc.workqueue) the dispatcher calls into.              *)
(*                                                                         *)
(* The generated dispatcher is straight-line machine code; its execution   *)
(* by a calling thread is split into the steps Distribute, ComputeArgs,    *)
(* AddTask (one per chunk), Ready, Synchronize and Return.                 *)
(*                                                                         *)
(* Sequences are 1-based: chunk i of the source (0..NUM_CPU-1) is entry    *)
(* i+1 of count_list / args_list, lane j (0..array_count-1) is entry j+1   *)
(* of args / steps, and dimensions[0] is entry 1 of the dimension buffer.  *)
(***************************************************************************)
EXTENDS Integers, Sequences, FiniteSets, TLC

\* ------------------------------------------------------------------ bounds
\* Largest NUM_CPU the model draws (the source takes max(1, cpu_count())).
MaxCPU == 3
\* Width in bits of the intp type of the model (the source's is 32 or 64).
IntpBits == 5
\* Largest element count of a dispatch call that runs on the pool.
MaxTotal == 5
\* Dispatch calls each calling thread makes.
MaxCalls == 2
\* Calling threads of the concurrent specification.
NumCallers == 2
\* Largest value of the word, and of the arguments, of a CAS call.
MaxCasVal == 3

\* ------------------------------------------------------- intp arithmetic
RECURSIVE Pow2(_)
Pow2(n) == IF n = 0 THEN 1 ELSE 2 * Pow2(n - 1)

Modulus == Pow2(IntpBits)
IntpMax == Modulus \div 2 - 1
Intp == 0 .. Modulus - 1

\* The signed value of an intp bit pattern, and the pattern of an integer.
ToSigned(x) == IF x > IntpMax THEN x - Modulus ELSE x
ToIntp(x) == x % Modulus

\* builder.add / builder.sub / builder.mul / builder.udiv on intp values.
Add(a, b) == (a + b) % Modulus
Sub(a, b) == (a - b) % Modulus
Mul(a, b) == (a * b) % Modulus
UDiv(a, b) == a \div b

\* ---------------------------------------------------- chunk partitioning
\* A plausible slip: the uniform count is rounded up instead of down.
CountRoundUp(total, T) == UDiv(Add(total, ToIntp(T - 1)), ToIntp(T))

\* count = builder.udiv(total, ncpu)
Count(total, T) == UDiv(total, ToIntp(T))

\* A plausible slip: count is subtracted once more than the loop has run.
RECURSIVE RemainExtraSub(_, _, _)
RemainExtraSub(total, cnt, k) ==
    IF k = 0 THEN Sub(total, cnt) ELSE Sub(RemainExtraSub(total, cnt, k - 1), cnt)

\* remain after k executions of remain = builder.sub(remain, count)
RECURSIVE Remain(_, _, _)
Remain(total, cnt, k) ==
    IF k = 0 THEN total ELSE Sub(Remain(total, cnt, k - 1), cnt)

\* A plausible slip: the last chunk gets the uniform count, the leftover is lost.
ChunkCountNoLeftover(total, T, i) == Count(total, T)

\* The count stored for chunk i (0-based): the last thread takes all leftover.
ChunkCount(total, T, i) ==
    IF i = T - 1 THEN Remain(total, Count(total, T), T - 1)
    ELSE Count(total, T)

\* A plausible slip: the inner extents are not copied into the chunk's buffer.
DimsBufferNoCopy(kind, dims, ndim, total, T, i) ==
    IF kind = "ufunc" THEN << ChunkCount(total, T, i) >>
    ELSE [ k \in 1 .. ndim + 1 |->
             IF k = 1 THEN ChunkCount(total, T, i) ELSE 0 ]

\* The dimension buffer of chunk i: one intp for a ufunc; for a gufunc the
\* first inner_ndim + 1 entries of dimensions, entry 0 overwritten by the count.
DimsBuffer(kind, dims, ndim, total, T, i) ==
    IF kind = "ufunc" THEN << ChunkCount(total, T, i) >>
    ELSE [ [ k \in 1 .. ndim + 1 |-> dims[k] ] EXCEPT ![1] = ChunkCount(total, T, i) ]

\* A plausible slip: the step is left out of the offset (elements taken as bytes).
ChunkPtrNoStep(base, step, cnt, i) ==
    Add(base, Mul(cnt, ToIntp(i)))

\* A plausible slip: the offset is taken one chunk too far.
ChunkPtrOffByOne(base, step, cnt, i) ==
    Add(base, Mul(step, Mul(cnt, ToIntp(i + 1))))

\* addr = base + steps_list[j] * (count * i), all in intp.
ChunkPtr(base, step, cnt, i) ==
    Add(base, Mul(step, Mul(cnt, ToIntp(i))))

\* The pointer array of chunk i: one sub-array pointer per lane.
ArgsArray(argv, stepv, nlanes, cnt, i) ==
    [ j \in 1 .. nlanes |-> ChunkPtr(argv[j], stepv[j], cnt, i) ]

\* ------------------------------------------------------------------ state
AllCallers == 1 .. NumCallers
Workers == 1 .. MaxCPU
Kinds == {"ufunc", "gufunc"}
\* inner_ndim values of the gufunc signatures the model builds wrappers for.
InnerNdims == {0, 1, 3}
\* len(sig.args) of the signatures of the arithmetic specification.
SigArgCounts == {1, 2}
NoTask == [kernel |-> "none"]
\* The address of the generated CAS function (any non-null value).
CasPtr == 1
\* The null pointer, as the guard's destructor passes it to set_cas.
NullPtr == 0
\* No call of the CAS function is being looked at.
NoCasCall ==
    [ word |-> 0, was |-> 0, old |-> 0, repl |-> 0, ret |-> 0, done |-> FALSE ]

VARIABLES
    NUM_CPU,     \* max(1, multiprocessing.cpu_count()), fixed per process
    mpc,         \* where the importing (main) thread is in the module body
    cas,         \* the pointer registered by lib.set_cas (0 = NULL)
    engine,      \* the MCJIT engine owning the CAS code:
                 \*   "none" | "live" | "released"
    guard,       \* the _ProtectEngineDestroy object:
                 \*   "none" | "alive" | "dying" | "finalized" | "freed"
    setcas_log,  \* history: the arguments of the set_cas calls made so far
    cascall,     \* a call of the generated CAS function: the word at the
                 \*   address, the arguments, the value returned
    keepalive,   \* the module-level _keepalive list
    built,       \* kinds whose build() has returned a wrapper pointer
    launched,    \* pool: launch_threads has run
    nworkers,    \* pool: worker threads spawned
    queue,       \* pool: submitted tasks not yet taken by a worker
    ready,       \* pool: signal_ready received for the current round
    completed,   \* pool: tasks of the current round reported complete
    wtask,       \* pool: the task each worker is executing (NoTask = idle)
    active,      \* calling threads that make dispatch calls
    pc,          \* per calling thread: position in the generated dispatcher
    kind,        \* per call: which wrapper is called ("ufunc" | "gufunc")
    nargs,       \* per call: len(sig.args) of the wrapper
    inner_ndim,  \* per call: inner_ndim of the wrapper (0 for a ufunc)
    args,        \* per call: the caller's char **args (lane base pointers)
    dimensions,  \* per call: the caller's npy_intp *dimensions
    steps,       \* per call: the caller's npy_intp *steps
    data,        \* per call: the caller's void *data
    count,       \* dispatcher frame: count = total udiv ncpu
    count_list,  \* dispatcher frame: one dimension buffer per chunk
    args_list,   \* dispatcher frame: one pointer array per chunk
    idx,         \* dispatcher: add_task calls made so far in this call
    ncalls,      \* per calling thread: dispatch calls that have returned
    mem,         \* array memory, by byte address
    wcount,      \* writes made to each address since its array was handed in
    trace,       \* history: the pool entry points this call has invoked
    finished     \* history: chunks of this call whose kernel has returned

procVars == << NUM_CPU, mpc, cas, engine, guard, setcas_log, cascall,
              keepalive, built >>
poolVars == << launched, nworkers, queue, ready, completed, wtask >>
argVars == << kind, nargs, inner_ndim, args, dimensions, steps, data >>
frameVars == << count, count_list, args_list >>
memVars == << mem, wcount >>
vars == << procVars, poolVars, active, pc, argVars, frameVars, idx, ncalls,
           memVars, trace, finished >>

\* ------------------------------------------------------- array placement
\* Each calling thread hands in its own arrays: an input array followed by an
\* output array of up to MaxTotal one-byte elements, disjoint between threads.
InBase(c) == 1 + (c - 1) * 2 * MaxTotal
OutBase(c) == InBase(c) + MaxTotal
InRegion(c) == InBase(c) .. InBase(c) + MaxTotal - 1
OutRegion(c) == OutBase(c) .. OutBase(c) + MaxTotal - 1
InitMem == [ a \in Intp |->
               IF \E c \in AllCallers : a \in InRegion(c) THEN a ELSE 0 ]

\* ------------------------------------------------------------ inner kernel
\* The scalar function the inner kernel applies to the input elements.
RECURSIVE SumSeq(_)
SumSeq(xs) == IF xs = << >> THEN 0 ELSE Head(xs) + SumSeq(Tail(xs))
InnerF(xs) == 2 * SumSeq(xs) + 1

\* The inner kernel's loop, positions k .. n-1, on memory m with write counts
\* wc: lane pointers p (inputs, then the output), strides s.
RECURSIVE KernelLoop(_, _, _, _, _, _)
KernelLoop(m, wc, p, s, n, k) ==
    IF k >= n THEN << m, wc >>
    ELSE LET nl == Len(p)
             ins == [ j \in 1 .. nl - 1 |-> m[Add(p[j], Mul(ToIntp(k), s[j]))] ]
             dst == Add(p[nl], Mul(ToIntp(k), s[nl]))
         IN KernelLoop([m EXCEPT ![dst] = InnerF(ins)],
                       [wc EXCEPT ![dst] = @ + 1], p, s, n, k + 1)

\* ------------------------------------------------------------ initial state
\* The process before the module body has run _init(), with the calling
\* threads act; nothing is registered, launched, built or called yet.
InitWith(act) ==
    /\ NUM_CPU \in 1 .. MaxCPU
    /\ mpc = "init"
    /\ cas = 0
    /\ engine = "none"
    /\ guard = "none"
    /\ setcas_log = << >>
    /\ cascall = NoCasCall
    /\ keepalive = << >>
    /\ built = {}
    /\ launched = FALSE
    /\ nworkers = 0
    /\ queue = << >>
    /\ ready = FALSE
    /\ completed = 0
    /\ wtask = [ w \in Workers |-> NoTask ]
    /\ active = act
    /\ pc = [ c \in AllCallers |-> "idle" ]
    /\ kind = [ c \in AllCallers |-> "ufunc" ]
    /\ nargs = [ c \in AllCallers |-> 1 ]
    /\ inner_ndim = [ c \in AllCallers |-> 0 ]
    /\ args = [ c \in AllCallers |-> << >> ]
    /\ dimensions = [ c \in AllCallers |-> << >> ]
    /\ steps = [ c \in AllCallers |-> << >> ]
    /\ data = [ c \in AllCallers |-> 0 ]
    /\ count = [ c \in AllCallers |-> 0 ]
    /\ count_list = [ c \in AllCallers |-> << >> ]
    /\ args_list = [ c \in AllCallers |-> << >> ]
    /\ idx = [ c \in AllCallers |-> 0 ]
    /\ ncalls = [ c \in AllCallers |-> 0 ]
    /\ mem = InitMem
    /\ wcount = [ a \in Intp |-> 0 ]
    /\ trace = [ c \in AllCallers |-> << >> ]
    /\ finished = [ c \in AllCallers |-> {} ]

Init == InitWith({1})

\* ------------------------------------------------------------- worker pool
\* launch_threads(count): spawns count workers the first time, then a no-op.
LaunchThreads(n) ==
    IF launched
    THEN UNCHANGED << launched, nworkers >>
    ELSE launched' = TRUE /\ nworkers' = n

\* add_task(fn, args, dims, steps, data): enqueues one task.
PoolAddTask(t) == queue' = Append(queue, t)

\* ready(): marks that all the tasks of the current round are submitted.
PoolReady == ready' = TRUE

\* synchronize(): blocks the caller until as many tasks as there are workers
\* have completed in the current round; the round is then over.
PoolSynchronize ==
    /\ completed >= nworkers
    /\ completed' = 0
    /\ ready' = FALSE

\* A plausible slip: launching with a thread count other than NUM_CPU.
LaunchArgOneLess == IF NUM_CPU > 1 THEN NUM_CPU - 1 ELSE NUM_CPU

\* launch_threads(NUM_CPU)
LaunchArg == NUM_CPU

\* _launch_threads()
LaunchPool == LaunchThreads(LaunchArg)

\* set_cas(ptr): registers the coordination primitive with the pool.
SetCas(ptr) ==
    /\ cas' = ptr
    /\ setcas_log' = Append(setcas_log, ptr)

\* ------------------------------------------------------------ module body
\* A plausible slip: registering a null pointer.
InitCasArgNull == NullPtr

\* set_cas(c_void_p(cas_ptr))
InitCasArg == CasPtr

\* _init(): register the pool's entry points and the generated CAS function,
\* and keep the guard (set_cas, engine) alive in _keepalive.
ModInit ==
    /\ mpc = "init"
    /\ engine' = "live"
    /\ SetCas(InitCasArg)
    /\ guard' = "alive"
    /\ keepalive' = Append(keepalive, [set_cas |-> "set_cas", engine |-> "engine"])
    /\ mpc' = "toggle"
    /\ UNCHANGED << NUM_CPU, cascall, built, poolVars, active, pc, argVars, frameVars,
                    idx, ncalls, memVars, trace, finished >>

\* The NUMBA_DYLD_WORKAROUND toggle: launch eagerly when it is set to a
\* non-zero value, or when it is unset on python2.6 64-bit linux.
ModToggle ==
    /\ mpc = "toggle"
    /\ \E isset \in BOOLEAN, val \in {0, 1}, py26linux64 \in BOOLEAN :
         IF (isset /\ val # 0) \/ (~isset /\ py26linux64)
         THEN LaunchPool
         ELSE UNCHANGED << launched, nworkers >>
    /\ mpc' = "main"
    /\ UNCHANGED << NUM_CPU, cas, engine, guard, setcas_log, cascall,
                    keepalive, built, queue, ready,
                    completed, wtask, active, pc, argVars, frameVars, idx,
                    ncalls, memVars, trace, finished >>

\* A plausible slip: a build method that returns the wrapper's pointer without
\* launching the pool.
BuildNoLaunch(k) ==
    /\ mpc = "main"
    /\ built' = built \cup {k}
    /\ UNCHANGED << NUM_CPU, mpc, cas, engine, guard, setcas_log, cascall,
                    keepalive, poolVars, active, pc, argVars, frameVars, idx,
                    ncalls, memVars, trace, finished >>

\* ParallelUFuncBuilder.build / ParallelGUFuncBuilder.build: launch the pool,
\* then build the wrapper and return its pointer.
Build(k) ==
    /\ mpc = "main"
    /\ LaunchPool
    /\ built' = built \cup {k}
    /\ UNCHANGED << NUM_CPU, mpc, cas, engine, guard, setcas_log, cascall,
                    keepalive, queue, ready,
                    completed, wtask, active, pc, argVars, frameVars, idx,
                    ncalls, memVars, trace, finished >>

\* ---------------------------------------------------------------- teardown
\* Interpreter exit, once the main thread's code has ended and the calling
\* threads have returned: the module's globals go, and with _keepalive the
\* last reference to the guard.
ProcessExit ==
    /\ mpc = "main"
    /\ \A c \in AllCallers : pc[c] = "idle"
    /\ mpc' = "exit"
    /\ keepalive' = << >>
    /\ guard' = IF guard = "alive" THEN "dying" ELSE guard
    /\ UNCHANGED << NUM_CPU, cas, engine, setcas_log, cascall, built, poolVars,
                    active, pc, argVars, frameVars, idx, ncalls, memVars,
                    trace, finished >>

\* A plausible slip: the destructor re-registers the function it should null.
DelCasArgStale == CasPtr

\* self.set_cas(0)
DelCasArg == NullPtr

\* A plausible slip: a destructor that does not call set_cas.
GuardDelNoCall ==
    /\ guard = "dying"
    /\ guard' = "finalized"
    /\ UNCHANGED << NUM_CPU, mpc, cas, setcas_log, engine, cascall, keepalive,
                    built, poolVars, active, pc, argVars, frameVars, idx,
                    ncalls, memVars, trace, finished >>

\* _ProtectEngineDestroy.__del__: runs when the guard is unreferenced, while
\* the guard still holds its attributes.
GuardDel ==
    /\ guard = "dying"
    /\ SetCas(DelCasArg)
    /\ guard' = "finalized"
    /\ UNCHANGED << NUM_CPU, mpc, engine, cascall, keepalive, built, poolVars,
                    active, pc, argVars, frameVars, idx, ncalls, memVars,
                    trace, finished >>

\* The finalized guard's attributes are dropped: self.engine was the last
\* reference to the engine, which releases the memory of the CAS function.
EngineRelease ==
    /\ guard = "finalized"
    /\ engine = "live"
    /\ engine' = "released"
    /\ guard' = "freed"
    /\ UNCHANGED << NUM_CPU, mpc, cas, setcas_log, cascall, keepalive, built,
                    poolVars, active, pc, argVars, frameVars, idx, ncalls,
                    memVars, trace, finished >>

\* -------------------------------------------------------------- dispatcher
\* A plausible slip: returning right after ready(), without synchronize().
NextPcNoSync(p, i, T) ==
    CASE p = "distribute" -> "args"
      [] p = "args" -> "add"
      [] p = "add" -> IF i + 1 < T THEN "add" ELSE "ready"
      [] p = "ready" -> "ret"
      [] OTHER -> "ret"

\* A plausible slip: one add_task call too few (the last chunk is not submitted).
NextPcShortLoop(p, i, T) ==
    CASE p = "distribute" -> "args"
      [] p = "args" -> "add"
      [] p = "add" -> IF i + 2 < T THEN "add" ELSE "ready"
      [] p = "ready" -> "sync"
      [] OTHER -> "ret"

\* The order of the generated code: distribute the work, compute the pointer
\* arrays, one add_task per chunk (i = calls made before this one), ready,
\* synchronize, ret.
NextPc(p, i, T) ==
    CASE p = "distribute" -> "args"
      [] p = "args" -> "add"
      [] p = "add" -> IF i + 1 < T THEN "add" ELSE "ready"
      [] p = "ready" -> "sync"
      [] OTHER -> "ret"

\* The dispatcher's frame (its allocas) exists from entry to ret.
FramePcs == {"distribute", "args", "add", "ready", "sync", "ret"}
FrameLive(c) == pc[c] \in FramePcs

\* A plausible slip: every task is handed the first chunk's pointer array and
\* dimension buffer.
TaskSharedSlot(c, i) ==
    [ kernel |-> kind[c], args |-> << c, 1 >>, dims |-> << c, 1 >>,
      steps |-> c, data |-> data[c], owner |-> c, chunk |-> i,
      round |-> ncalls[c] ]

\* The five pointers handed to add_task for chunk i (1-based) of thread c's
\* call: innerfunc, each_args, each_dims, steps, data.  The two frame pointers
\* are named by (thread, chunk); round tags the call for the properties only.
Task(c, i) ==
    [ kernel |-> kind[c], args |-> << c, i >>, dims |-> << c, i >>,
      steps |-> c, data |-> data[c], owner |-> c, chunk |-> i,
      round |-> ncalls[c] ]

\* Dispatch calls a thread makes: MaxCalls when it is the only calling thread,
\* one each when several threads call concurrently.
CallLimit == IF Cardinality(active) = 1 THEN MaxCalls ELSE 1

\* Element counts of the calls: every count up to MaxTotal for a single calling
\* thread; an uneven small and an uneven large one for concurrent threads.
CallTotals == IF Cardinality(active) = 1 THEN 0 .. MaxTotal ELSE {1, MaxCPU + 1}

\* A history entry: a pool entry point called, and for add_task the chunk
\* (1-based) whose pointers were passed.
PoolCall(op, i) == [ op |-> op, chunk |-> i ]

\* NumPy calls a built wrapper: (args, dimensions, steps, data), with freshly
\* handed-in arrays of total one-byte elements, one input and one output lane.
Call(c) ==
    /\ c \in active
    /\ mpc = "main"
    /\ pc[c] = "idle"
    /\ ncalls[c] < CallLimit
    /\ \E k \in built, total \in CallTotals :
         /\ kind' = [kind EXCEPT ![c] = k]
         /\ dimensions' = [dimensions EXCEPT ![c] = << total >>]
    /\ nargs' = [nargs EXCEPT ![c] = 1]
    /\ inner_ndim' = [inner_ndim EXCEPT ![c] = 0]
    /\ args' = [args EXCEPT ![c] = << InBase(c), OutBase(c) >>]
    /\ steps' = [steps EXCEPT ![c] = << 1, 1 >>]
    /\ data' = [data EXCEPT ![c] = 0]
    /\ mem' = [ a \in Intp |-> IF a \in OutRegion(c) THEN 0 ELSE mem[a] ]
    /\ wcount' = [ a \in Intp |->
                     IF a \in InRegion(c) \cup OutRegion(c) THEN 0 ELSE wcount[a] ]
    /\ idx' = [idx EXCEPT ![c] = 0]
    /\ trace' = [trace EXCEPT ![c] = << >>]
    /\ finished' = [finished EXCEPT ![c] = {}]
    /\ pc' = [pc EXCEPT ![c] = "distribute"]
    /\ UNCHANGED << procVars, poolVars, active, frameVars, ncalls >>

\* "Distribute work": total, count, and the per-chunk dimension buffers.
Distribute(c) ==
    /\ pc[c] = "distribute"
    /\ LET total == dimensions[c][1]
       IN /\ count' = [count EXCEPT ![c] = Count(total, NUM_CPU)]
          /\ count_list' = [count_list EXCEPT ![c] =
                 [ i \in 1 .. NUM_CPU |->
                     DimsBuffer(kind[c], dimensions[c], inner_ndim[c],
                                total, NUM_CPU, i - 1) ]]
    /\ pc' = [pc EXCEPT ![c] = NextPc("distribute", 0, NUM_CPU)]
    /\ UNCHANGED << procVars, poolVars, active, argVars, args_list, idx,
                    ncalls, memVars, trace, finished >>

\* "Get the array argument set for each thread": array_count pointers per chunk.
ComputeArgs(c) ==
    /\ pc[c] = "args"
    /\ args_list' = [args_list EXCEPT ![c] =
           [ i \in 1 .. NUM_CPU |->
               ArgsArray(args[c], steps[c], nargs[c] + 1, count[c], i - 1) ]]
    /\ pc' = [pc EXCEPT ![c] = NextPc("args", 0, NUM_CPU)]
    /\ UNCHANGED << procVars, poolVars, active, argVars, count, count_list,
                    idx, ncalls, memVars, trace, finished >>

\* builder.call(add_task, innerargs) for the next chunk.
AddTask(c) ==
    /\ pc[c] = "add"
    /\ PoolAddTask(Task(c, idx[c] + 1))
    /\ idx' = [idx EXCEPT ![c] = @ + 1]
    /\ trace' = [trace EXCEPT ![c] = Append(@, PoolCall("add_task", idx[c] + 1))]
    /\ pc' = [pc EXCEPT ![c] = NextPc("add", idx[c], NUM_CPU)]
    /\ UNCHANGED << procVars, launched, nworkers, ready, completed, wtask,
                    active, argVars, frameVars, ncalls, memVars, finished >>

\* builder.call(ready, ()): "signal worker that we are ready".
Ready(c) ==
    /\ pc[c] = "ready"
    /\ PoolReady
    /\ trace' = [trace EXCEPT ![c] = Append(@, PoolCall("ready", 0))]
    /\ pc' = [pc EXCEPT ![c] = NextPc("ready", 0, NUM_CPU)]
    /\ UNCHANGED << procVars, launched, nworkers, queue, completed, wtask,
                    active, argVars, frameVars, idx, ncalls, memVars, finished >>

\* builder.call(synchronize, ()): "wait for workers".
Synchronize(c) ==
    /\ pc[c] = "sync"
    /\ PoolSynchronize
    /\ trace' = [trace EXCEPT ![c] = Append(@, PoolCall("synchronize", 0))]
    /\ pc' = [pc EXCEPT ![c] = NextPc("sync", 0, NUM_CPU)]
    /\ UNCHANGED << procVars, launched, nworkers, queue, wtask, active,
                    argVars, frameVars, idx, ncalls, memVars, finished >>

\* builder.ret_void(): the dispatcher's frame is gone.
Return(c) ==
    /\ pc[c] = "ret"
    /\ pc' = [pc EXCEPT ![c] = "idle"]
    /\ ncalls' = [ncalls EXCEPT ![c] = @ + 1]
    /\ UNCHANGED << procVars, poolVars, active, argVars, frameVars, idx,
                    memVars, trace, finished >>

\* ----------------------------------------------------------------- workers
\* A worker waits for a task: once the round is signalled ready it takes one.
TakeTask(w) ==
    /\ launched
    /\ w <= nworkers
    /\ ready
    /\ wtask[w] = NoTask
    /\ queue # << >>
    /\ wtask' = [wtask EXCEPT ![w] = Head(queue)]
    /\ queue' = Tail(queue)
    /\ UNCHANGED << procVars, launched, nworkers, ready, completed, active,
                    pc, argVars, frameVars, idx, ncalls, memVars, trace,
                    finished >>

\* What a worker can read as dimensions[0] through a task's dims pointer: the
\* buffer's entry while the dispatcher's frame is live.  Once the frame is gone
\* the read is of dead stack memory: it may still hold the old entry or have
\* been overwritten; the model lets it hold the old entry, 0 or MaxTotal.
DimsRead(t) ==
    LET c == t.dims[1]
        i == t.dims[2]
    IN IF FrameLive(c) /\ t.round = ncalls[c]
       THEN { count_list[c][i][1] }
       ELSE { count_list[c][i][1], 0, MaxTotal }

\* The worker invokes func(args, dims, steps, data) and marks the task complete.
RunTask(w) ==
    /\ wtask[w] # NoTask
    /\ LET t == wtask[w]
           c == t.owner
       IN /\ \E n \in DimsRead(t) :
               LET r == KernelLoop(mem, wcount, args_list[t.args[1]][t.args[2]],
                                   steps[t.steps], n, 0)
               IN mem' = r[1] /\ wcount' = r[2]
          /\ finished' = IF FrameLive(c) /\ t.round = ncalls[c]
                         THEN [finished EXCEPT ![c] = @ \cup {t.chunk}]
                         ELSE finished
    /\ completed' = completed + 1
    /\ wtask' = [wtask EXCEPT ![w] = NoTask]
    /\ UNCHANGED << procVars, launched, nworkers, queue, ready, active, pc,
                    argVars, frameVars, idx, ncalls, trace >>

\* ---------------------------------------------------------- specifications
CallerStep(c) ==
    \/ Call(c)
    \/ Distribute(c)
    \/ ComputeArgs(c)
    \/ AddTask(c)
    \/ Ready(c)
    \/ Synchronize(c)
    \/ Return(c)

WorkerStep(w) == TakeTask(w) \/ RunTask(w)

MainStep == ModInit \/ ModToggle \/ \E k \in Kinds : Build(k)

ExitStep == ProcessExit \/ GuardDel \/ EngineRelease

Next ==
    \/ MainStep
    \/ ExitStep
    \/ \E c \in AllCallers : CallerStep(c)
    \/ \E w \in Workers : WorkerStep(w)

\* One calling thread, from process start.
Spec == Init /\ [][Next]_vars

\* The steps of the generated dispatcher once a call has been entered.
DispatcherStep(c) ==
    \/ Distribute(c)
    \/ ComputeArgs(c)
    \/ AddTask(c)
    \/ Ready(c)
    \/ Synchronize(c)
    \/ Return(c)

\* Spec with the scheduling of OS threads: a worker thread that can take or
\* run a task eventually does, and a calling thread inside the dispatcher
\* eventually executes its next instruction.
LiveSpec ==
    /\ Init
    /\ [][Next]_vars
    /\ \A w \in Workers : WF_vars(WorkerStep(w))
    /\ \A c \in AllCallers : WF_vars(DispatcherStep(c))

\* Several calling threads dispatching concurrently on disjoint arrays.
InitConc == InitWith(AllCallers)
SpecConc == InitConc /\ [][Next]_vars

\* The dispatcher's arithmetic on its own: a process that has imported the
\* module and built both wrappers, with thread 1 entering a wrapper on inputs
\* drawn over the whole non-negative intp range, signed strides, wrapping
\* pointers, one or more input lanes and the gufunc inner extents.
LaneBases == {1, Modulus - 2}
LaneSteps == {ToIntp(-2), 0, 3}
InnerExtents(d) == { [ k \in 1 .. d |-> k + 1 ], [ k \in 1 .. d |-> 3 ] }

InitArith ==
    /\ NUM_CPU \in 1 .. MaxCPU
    /\ mpc = "main"
    /\ cas = CasPtr
    /\ engine = "live"
    /\ guard = "alive"
    /\ setcas_log = << CasPtr >>
    /\ cascall = NoCasCall
    /\ keepalive = << [set_cas |-> "set_cas", engine |-> "engine"] >>
    /\ built = Kinds
    /\ launched = TRUE
    /\ nworkers = NUM_CPU
    /\ queue = << >>
    /\ ready = FALSE
    /\ completed = 0
    /\ wtask = [ w \in Workers |-> NoTask ]
    /\ active = {1}
    /\ pc = [ c \in AllCallers |-> IF c = 1 THEN "distribute" ELSE "idle" ]
    /\ \E k \in Kinds, d \in InnerNdims, total \in 0 .. IntpMax, n \in SigArgCounts :
         /\ k = "ufunc" => d = 0
         /\ kind = [ c \in AllCallers |-> IF c = 1 THEN k ELSE "ufunc" ]
         /\ inner_ndim = [ c \in AllCallers |-> IF c = 1 THEN d ELSE 0 ]
         /\ nargs = [ c \in AllCallers |-> IF c = 1 THEN n ELSE 1 ]
         /\ \E e \in InnerExtents(d) :
              dimensions = [ c \in AllCallers |->
                               IF c = 1 THEN << total >> \o e ELSE << >> ]
         /\ \E a \in [ 1 .. n + 1 -> LaneBases ], s \in [ 1 .. n + 1 -> LaneSteps ] :
              /\ args = [ c \in AllCallers |-> IF c = 1 THEN a ELSE << >> ]
              /\ steps = [ c \in AllCallers |-> IF c = 1 THEN s ELSE << >> ]
    /\ data = [ c \in AllCallers |-> 0 ]
    /\ count = [ c \in AllCallers |-> 0 ]
    /\ count_list = [ c \in AllCallers |-> << >> ]
    /\ args_list = [ c \in AllCallers |-> << >> ]
    /\ idx = [ c \in AllCallers |-> 0 ]
    /\ ncalls = [ c \in AllCallers |-> 0 ]
    /\ mem = InitMem
    /\ wcount = [ a \in Intp |-> 0 ]
    /\ trace = [ c \in AllCallers |-> << >> ]
    /\ finished = [ c \in AllCallers |-> {} ]

NextArith == \E c \in AllCallers : Distribute(c) \/ ComputeArgs(c)

SpecArith == InitArith /\ [][NextArith]_vars

\* ------------------------------------------------------------ CAS function
\* The cmpxchg instruction on a word holding v: the word afterwards, and the
\* pair it yields, element 0 the value loaded and element 1 the success bit.
CmpXchg(v, old, repl) ==
    [ word |-> IF v = old THEN repl ELSE v, e0 |-> v, e1 |-> (v = old) ]

\* A plausible slip: the select's arms the other way round.
CasFunctionSwapped(v, old, repl) ==
    LET outpack == CmpXchg(v, old, repl)
        out == outpack.e0
        failed == outpack.e1
    IN [ word |-> outpack.word, ret |-> IF failed THEN out ELSE old ]

\* .numba.parallel.ufunc.cas(ptr, old, repl): out and failed are elements 0
\* and 1 of the cmpxchg, and the function returns select(failed, old, out).
CasFunction(v, old, repl) ==
    LET outpack == CmpXchg(v, old, repl)
        out == outpack.e0
        failed == outpack.e1
    IN [ word |-> outpack.word, ret |-> IF failed THEN old ELSE out ]

\* The pool calls the registered function on one of its words.
CasCall ==
    /\ cas # 0
    /\ engine = "live"
    /\ ~cascall.done
    /\ LET r == CasFunction(cascall.word, cascall.old, cascall.repl)
       IN cascall' = [ cascall EXCEPT !.was = cascall.word, !.word = r.word,
                                      !.ret = r.ret, !.done = TRUE ]
    /\ UNCHANGED << NUM_CPU, mpc, cas, engine, guard, setcas_log, keepalive,
                    built, poolVars, active, pc, argVars, frameVars, idx,
                    ncalls, memVars, trace, finished >>

\* The CAS function on its own: a process that has imported the module and
\* launched the pool, which is about to call the function on a word and
\* arguments drawn from 0 .. MaxCasVal.
CasVals == 0 .. MaxCasVal

InitCas ==
    /\ NUM_CPU \in 1 .. MaxCPU
    /\ mpc = "main"
    /\ cas = CasPtr
    /\ engine = "live"
    /\ guard = "alive"
    /\ setcas_log = << CasPtr >>
    /\ \E v \in CasVals, o \in CasVals, r \in CasVals :
         cascall = [ NoCasCall EXCEPT !.word = v, !.old = o, !.repl = r ]
    /\ keepalive = << [set_cas |-> "set_cas", engine |-> "engine"] >>
    /\ built = {}
    /\ launched = TRUE
    /\ nworkers = NUM_CPU
    /\ queue = << >>
    /\ ready = FALSE
    /\ completed = 0
    /\ wtask = [ w \in Workers |-> NoTask ]
    /\ active = {1}
    /\ pc = [ c \in AllCallers |-> "idle" ]
    /\ kind = [ c \in AllCallers |-> "ufunc" ]
    /\ nargs = [ c \in AllCallers |-> 1 ]
    /\ inner_ndim = [ c \in AllCallers |-> 0 ]
    /\ args = [ c \in AllCallers |-> << >> ]
    /\ dimensions = [ c \in AllCallers |-> << >> ]
    /\ steps = [ c \in AllCallers |-> << >> ]
    /\ data = [ c \in AllCallers |-> 0 ]
    /\ count = [ c \in AllCallers |-> 0 ]
    /\ count_list = [ c \in AllCallers |-> << >> ]
    /\ args_list = [ c \in AllCallers |-> << >> ]
    /\ idx = [ c \in AllCallers |-> 0 ]
    /\ ncalls = [ c \in AllCallers |-> 0 ]
    /\ mem = InitMem
    /\ wcount = [ a \in Intp |-> 0 ]
    /\ trace = [ c \in AllCallers |-> << >> ]
    /\ finished = [ c \in AllCallers |-> {} ]

NextCas == CasCall

SpecCas == InitCas /\ [][NextCas]_vars

\* ------------------------------------------------------------- properties
\* Positions at which the dimension buffers, resp. the pointer arrays, of the
\* current call have been written.
Distributed(c) == pc[c] \in FramePcs \ {"distribute"}
ArgsComputed(c) == pc[c] \in FramePcs \ {"distribute", "args"}

TotalOf(c) == dimensions[c][1]
\* The signed value of chunk i's count (entry 0 of its dimension buffer).
CountOf(c, i) == ToSigned(count_list[c][i][1])

RECURSIVE SumCounts(_, _)
SumCounts(c, n) == IF n = 0 THEN 0 ELSE CountOf(c, n) + SumCounts(c, n - 1)

\* C1: for every total >= 0 and every NUM_CPU >= 1 the dispatcher stores
\* NUM_CPU chunk counts that sum exactly to total, each of them >= 0, the
\* first NUM_CPU - 1 of them equal to floor(total / NUM_CPU).
C1_CountsSumToTotal ==
    \A c \in AllCallers : Distributed(c) =>
        /\ Len(count_list[c]) = NUM_CPU
        /\ SumCounts(c, NUM_CPU) = TotalOf(c)
        /\ \A i \in 1 .. NUM_CPU : CountOf(c, i) >= 0
        /\ \A i \in 1 .. NUM_CPU - 1 : CountOf(c, i) = TotalOf(c) \div NUM_CPU

\* C1's case: the counts are stored for a total that NUM_CPU > 1 does not divide.
C1_Witness ==
    /\ Distributed(1)
    /\ NUM_CPU > 1
    /\ TotalOf(1) > NUM_CPU
    /\ TotalOf(1) % NUM_CPU # 0

\* The element positions of chunk i (1-based): it starts floor(total/T)*(i-1)
\* elements in and covers its own count.
ChunkElems(c, i) ==
    LET start == (TotalOf(c) \div NUM_CPU) * (i - 1)
    IN { n \in 0 .. IntpMax : start <= n /\ n < start + CountOf(c, i) }

\* A lane whose array lies in the address space and is walked forwards.
ForwardLane(c, j) ==
    /\ ToSigned(steps[c][j]) >= 1
    /\ args[c][j] + steps[c][j] * TotalOf(c) <= Modulus

\* The bytes of lane j handed to chunk i, for elements of esz bytes.
ChunkBytes(c, i, j, esz) ==
    { args_list[c][i][j] + k * steps[c][j] + b :
        k \in 0 .. CountOf(c, i) - 1, b \in 0 .. esz - 1 }

\* The bytes of the whole lane j, for elements of esz bytes.
LaneBytes(c, j, esz) ==
    { args[c][j] + n * steps[c][j] + b :
        n \in 0 .. TotalOf(c) - 1, b \in 0 .. esz - 1 }

\* C2: the element intervals of the NUM_CPU chunks of a dispatch are pairwise
\* disjoint and their union is exactly [0, total); and on every lane whose
\* step is at least the element size the byte ranges handed to the chunks are
\* pairwise disjoint and together are the lane's bytes.
C2_ChunksPartition ==
    \A c \in AllCallers : ArgsComputed(c) =>
        /\ UNION { ChunkElems(c, i) : i \in 1 .. NUM_CPU } = 0 .. TotalOf(c) - 1
        /\ \A i1, i2 \in 1 .. NUM_CPU :
             i1 # i2 => ChunkElems(c, i1) \cap ChunkElems(c, i2) = {}
        /\ \A j \in 1 .. nargs[c] + 1 : ForwardLane(c, j) =>
             \A esz \in 1 .. steps[c][j] :
               /\ UNION { ChunkBytes(c, i, j, esz) : i \in 1 .. NUM_CPU }
                    = LaneBytes(c, j, esz)
               /\ \A i1, i2 \in 1 .. NUM_CPU :
                    i1 # i2 =>
                      ChunkBytes(c, i1, j, esz) \cap ChunkBytes(c, i2, j, esz) = {}

\* C2's case: an uneven split, fewer elements than twice the threads, over a
\* forward lane with a step above one byte.
C2_Witness ==
    /\ ArgsComputed(1)
    /\ NUM_CPU > 2
    /\ TotalOf(1) > NUM_CPU
    /\ TotalOf(1) % NUM_CPU # 0
    /\ \E j \in 1 .. nargs[1] + 1 : ForwardLane(1, j) /\ steps[1][j] > 1

\* C3: for every lane j and chunk i the pointer stored in chunk i's pointer
\* array is args[j] + steps[j] * count * i in intp arithmetic, for a signed
\* step, where count = floor(total / NUM_CPU) is the uniform chunk size.
C3_ChunkPointers ==
    \A c \in AllCallers : ArgsComputed(c) =>
        /\ Len(args_list[c]) = NUM_CPU
        /\ \A i \in 1 .. NUM_CPU :
             /\ Len(args_list[c][i]) = nargs[c] + 1
             /\ \A j \in 1 .. nargs[c] + 1 :
                  args_list[c][i][j] =
                    (args[c][j]
                     + ToSigned(steps[c][j]) * (TotalOf(c) \div NUM_CPU) * (i - 1))
                      % Modulus

\* C3's case: a negative step, a last chunk larger than the uniform size, and
\* an offset that wraps around the intp range.
C3_Witness ==
    /\ ArgsComputed(1)
    /\ NUM_CPU > 1
    /\ CountOf(1, NUM_CPU) > CountOf(1, 1)
    /\ CountOf(1, 1) > 0
    /\ \E j \in 1 .. nargs[1] + 1 :
         /\ ToSigned(steps[1][j]) < 0
         /\ args[1][j] + ToSigned(steps[1][j]) * CountOf(1, 1) * (NUM_CPU - 1) < 0

\* C9: in the gufunc dispatcher every chunk's dimension buffer has
\* inner_ndim + 1 entries, entries 1..inner_ndim are those of the caller's
\* dimensions array, and entry 0 is the chunk's count of the partitioning.
C9_InnerDimsCopied ==
    \A c \in AllCallers : (Distributed(c) /\ kind[c] = "gufunc") =>
        \A i \in 1 .. NUM_CPU :
          /\ Len(count_list[c][i]) = inner_ndim[c] + 1
          /\ \A k \in 2 .. inner_ndim[c] + 1 :
               count_list[c][i][k] = dimensions[c][k]
          /\ count_list[c][i][1] =
               IF i < NUM_CPU THEN TotalOf(c) \div NUM_CPU
               ELSE TotalOf(c) - (NUM_CPU - 1) * (TotalOf(c) \div NUM_CPU)

\* C9's case: a gufunc with three inner dimensions and several chunks.
C9_Witness ==
    /\ Distributed(1)
    /\ kind[1] = "gufunc"
    /\ inner_ndim[1] = 3
    /\ NUM_CPU > 1
    /\ TotalOf(1) > NUM_CPU

\* The pool calls of one dispatch round, in order.
RoundCalls(T) ==
    [ k \in 1 .. T + 2 |->
        IF k <= T THEN PoolCall("add_task", k)
        ELSE IF k = T + 1 THEN PoolCall("ready", 0)
        ELSE PoolCall("synchronize", 0) ]

IsPrefix(s, t) == Len(s) <= Len(t) /\ \A k \in 1 .. Len(s) : s[k] = t[k]

\* C4: in every dispatch round the dispatcher calls add_task exactly NUM_CPU
\* times, once per chunk in chunk order, then ready once, then synchronize
\* once, then returns; and NUM_CPU is the number of workers launched.
C4_RoundCallOrder ==
    /\ launched => nworkers = NUM_CPU
    /\ \A c \in AllCallers :
         /\ IsPrefix(trace[c], RoundCalls(NUM_CPU))
         /\ pc[c] = "ready" => Len(trace[c]) = NUM_CPU
         /\ pc[c] = "sync" => Len(trace[c]) = NUM_CPU + 1
         /\ pc[c] = "ret" => trace[c] = RoundCalls(NUM_CPU)
         /\ Len(trace[c]) = NUM_CPU + 2 => pc[c] \in {"ret", "idle"}

\* C4's case: a round of several chunks, one of them empty, is about to return.
C4_Witness ==
    /\ pc[1] = "ret"
    /\ NUM_CPU > 1
    /\ trace[1] = RoundCalls(NUM_CPU)
    /\ \E i \in 1 .. NUM_CPU : CountOf(1, i) = 0
    /\ \E i \in 1 .. NUM_CPU : CountOf(1, i) > 0

\* The tasks of thread c the pool still holds: queued or being executed.
HeldTasks(c) ==
    { queue[k] : k \in { n \in 1 .. Len(queue) : queue[n].owner = c } }
      \cup { wtask[w] : w \in { v \in Workers :
                                  wtask[v] # NoTask /\ wtask[v].owner = c } }

\* C5: a dispatch call does not return while a task of its round is queued or
\* executing: at ret and after it every chunk's kernel has returned, and every
\* task the pool holds points into a live frame of the call that submitted it.
C5_NoReturnBeforeTasksDone ==
    \A c \in AllCallers :
      /\ pc[c] \in {"ret", "idle"} => HeldTasks(c) = {}
      /\ pc[c] = "ret" => finished[c] = 1 .. NUM_CPU
      /\ \A t \in HeldTasks(c) : FrameLive(c) /\ t.round = ncalls[c]

\* C5's case: a second call of several chunks has passed synchronize.
C5_Witness ==
    /\ pc[1] = "ret"
    /\ ncalls[1] > 0
    /\ NUM_CPU > 1
    /\ TotalOf(1) > NUM_CPU
    /\ finished[1] = 1 .. NUM_CPU

\* What sequentially applying the kernel to the N elements of thread c's
\* arrays leaves in memory, and how often it writes each address.
SeqMem(c, a) ==
    IF a \in OutBase(c) .. OutBase(c) + TotalOf(c) - 1
    THEN InnerF(<< InitMem[InBase(c) + (a - OutBase(c))] >>)
    ELSE IF a \in OutRegion(c) THEN 0 ELSE InitMem[a]
SeqWrites(c, a) ==
    IF a \in OutBase(c) .. OutBase(c) + TotalOf(c) - 1 THEN 1 ELSE 0

\* C7: when the dispatcher returns, memory is what sequentially applying the
\* kernel to the N elements leaves: every output position in [0, N) written
\* exactly once with f of its input, nothing else written.
C7_SameAsSequential ==
    \A c \in AllCallers : (c \in active /\ pc[c] = "ret") =>
        \A a \in Intp : mem[a] = SeqMem(c, a) /\ wcount[a] = SeqWrites(c, a)

\* C7's case: a call over NUM_CPU + 1 elements on the most threads returns.
C7_Witness ==
    /\ pc[1] = "ret"
    /\ NUM_CPU = MaxCPU
    /\ TotalOf(1) = NUM_CPU + 1
    /\ \A n \in 0 .. TotalOf(1) - 1 : wcount[OutBase(1) + n] = 1

\* C6: every dispatch call eventually returns, with all NUM_CPU tasks of its
\* round (zero-count ones included) executed.
C6_DispatchReturns ==
    \A c \in AllCallers :
      (pc[c] = "distribute") ~> (pc[c] = "idle" /\ finished[c] = 1 .. NUM_CPU)

\* C6's case: a call with an empty chunk has returned after all its tasks ran.
C6_Witness ==
    /\ pc[1] = "idle"
    /\ ncalls[1] = MaxCalls
    /\ NUM_CPU > 1
    /\ finished[1] = 1 .. NUM_CPU
    /\ \E i \in 1 .. NUM_CPU : CountOf(1, i) = 0

C10_ZeroChunksTrailing ==
    \A c \in AllCallers : (Distributed(c) /\ TotalOf(c) < NUM_CPU) =>
        /\ CountOf(c, NUM_CPU) = 0
        /\ \A i, k \in 1 .. NUM_CPU :
             (i < k /\ CountOf(c, i) = 0) => CountOf(c, k) = 0
        /\ pc[c] = "ret" =>
             trace[c] = RoundCalls(NUM_CPU) /\ finished[c] = 1 .. NUM_CPU

\* C10, amended: for total < NUM_CPU the chunks 0 .. NUM_CPU-2 all receive
\* count 0 and the last chunk receives total (zero only when total = 0);
\* every zero-count chunk is still submitted and executed before the return.
C10_ZeroChunksLeading ==
    \A c \in AllCallers : (Distributed(c) /\ TotalOf(c) < NUM_CPU) =>
        /\ \A i \in 1 .. NUM_CPU - 1 : CountOf(c, i) = 0
        /\ CountOf(c, NUM_CPU) = TotalOf(c)
        /\ pc[c] = "ret" =>
             trace[c] = RoundCalls(NUM_CPU) /\ finished[c] = 1 .. NUM_CPU

\* C10's case: a call with 0 < total < NUM_CPU has run all its tasks.
C10_Witness ==
    /\ pc[1] = "ret"
    /\ TotalOf(1) > 0
    /\ TotalOf(1) < NUM_CPU
    /\ finished[1] = 1 .. NUM_CPU
    /\ CountOf(1, 1) = 0

\* Number of set_cas calls so far that passed the pointer p.
SetCasCount(p) ==
    Cardinality({ k \in 1 .. Len(setcas_log) : setcas_log[k] = p })

\* C11: constructing the guard and then destroying it leaves the registered
\* primitive null: the destructor calls set_cas(0) exactly once, no one else
\* calls set_cas(0), and once it has run the registered pointer is 0 whatever
\* was registered before.
C11_GuardNullsCas ==
    /\ guard \in {"finalized", "freed"} => (cas = 0 /\ SetCasCount(0) = 1)
    /\ guard \in {"none", "alive", "dying"} => SetCasCount(0) = 0

\* C11's case: the guard of a process with a launched pool has been destroyed
\* while a non-null primitive was registered.
C11_Witness ==
    /\ guard = "finalized"
    /\ launched
    /\ setcas_log = << CasPtr, 0 >>

\* C12: cas(address, expected, desired) returns the value that was stored
\* at the address before the call in both outcomes: on a match it stores
\* desired and returns expected; on a mismatch it leaves the word unmodified
\* and returns the actual value.
C12_CasReturnsOldValue ==
    cascall.done =>
        /\ cascall.ret = cascall.was
        /\ cascall.was = cascall.old =>
             (cascall.word = cascall.repl /\ cascall.ret = cascall.old)
        /\ cascall.was # cascall.old =>
             (cascall.word = cascall.was /\ cascall.ret # cascall.old)

\* C12's case: a call that found another value than expected, with a desired
\* value different from both.
C12_Witness ==
    /\ cascall.done
    /\ cascall.was # cascall.old
    /\ cascall.repl # cascall.was
    /\ cascall.repl # cascall.old

\* A step that makes a launch request: the eager launch of the module body,
\* or the build of a ufunc or gufunc.
LaunchRequest ==
    \/ mpc = "toggle" /\ mpc' = "main" /\ launched'
    \* build() of a kind not built before (of a kind built before and with the
    \* pool launched, build() leaves the whole state as it was)
    \/ built' # built

\* C13: after any sequence of launch requests (eager launch at import,
\* ParallelUFuncBuilder.build, ParallelGUFuncBuilder.build) the pool has
\* exactly NUM_CPU workers: the first launch spawns them, and every later
\* launch neither adds workers nor resets the queue state; the pool, once
\* launched, keeps its workers.
C13_LaunchOnce ==
    [][ /\ launched => (launched' /\ nworkers' = nworkers)
        /\ LaunchRequest =>
             /\ launched' /\ nworkers' = NUM_CPU
             /\ launched => poolVars' = poolVars ]_vars

\* C13's case: both kinds built, so a launch was requested at least twice, and
\* a round's tasks are in the queue.
C13_Witness ==
    /\ built = Kinds
    /\ launched
    /\ nworkers = NUM_CPU
    /\ NUM_CPU > 1
    /\ queue # << >>

\* A worker thread may execute: the pool has been launched (its workers never
\* terminate).
WorkerMayExecute == launched

\* The guard has not been destroyed yet: from module import up to the call of
\* its destructor at teardown.
GuardNotDestroyed == guard \in {"none", "alive", "dying"}

\* A pool operation is in progress: a round's tasks are queued or taken, the
\* round is marked ready, or a dispatcher is at one of its add_task, ready or
\* synchronize calls.
PoolOperating ==
    \/ queue # << >>
    \/ ready
    \/ \E w \in Workers : wtask[w] # NoTask
    \/ \E c \in AllCallers : pc[c] \in {"add", "ready", "sync"}

\* C14: from module import through the guard's destruction at teardown, in
\* every state where a worker thread may execute - so at every task dequeue,
\* ready and synchronize - the registered coordination primitive is non-null
\* and is the CAS function of an engine that is still live.
C14_CasValidWhileWorkersRun ==
    /\ (WorkerMayExecute /\ GuardNotDestroyed) =>
           (cas # 0 /\ cas = CasPtr /\ engine = "live")
    /\ PoolOperating => (WorkerMayExecute /\ GuardNotDestroyed)

\* C14's case: a worker holds a dequeued task of a round marked ready.
C14_Witness ==
    /\ ready
    /\ \E w \in Workers : wtask[w] # NoTask
    /\ guard = "alive"
    /\ cas = CasPtr

\* The guard's destructor has made its set_cas(0) call.
Nulled == SetCasCount(0) > 0

\* Where the nulling stands in a state: it is made only by a guard that was
\* constructed and appended to _keepalive (after the registration of the CAS
\* function), and the engine is released only after it.
NullingOrdered ==
    /\ Nulled =>
         /\ guard \in {"finalized", "freed"}
         /\ setcas_log = << CasPtr, 0 >>
         /\ keepalive = << >>
    /\ guard \in {"none", "alive", "dying"} => (~Nulled /\ engine # "released")
    /\ guard = "alive" => Len(keepalive) = 1
    /\ engine = "released" => (cas = 0 /\ Nulled /\ guard = "freed")

\* C15: set_cas(0) is called strictly after the guard has been constructed and
\* appended to _keepalive and strictly before the engine is released: the step
\* that nulls starts from a constructed guard and a live engine and leaves the
\* engine live, the step that releases the engine starts with the primitive
\* already null, and the engine is in no state released with a non-null
\* primitive registered.
C15_NullBeforeRelease ==
    [][ /\ NullingOrdered'
        /\ (~Nulled /\ Nulled') =>
             (guard = "dying" /\ engine = "live" /\ engine' = "live")
        /\ (engine # "released" /\ engine' = "released") =>
             (cas = 0 /\ Nulled) ]_vars

\* C15's case: the engine has been released at teardown, of a process that
\* had launched the pool and run a dispatch call.
C15_Witness ==
    /\ engine = "released"
    /\ guard = "freed"
    /\ launched
    /\ ncalls[1] > 0

\* C16: no dispatch entry point runs before the pool is launched. A wrapper's
\* pointer exists only once its build method has called _launch_threads, so a
\* dispatch call in flight, every add_task/ready/synchronize call it has made
\* and every task it has queued are preceded by a completed launch with
\* NUM_CPU workers.
C16_LaunchBeforeDispatch ==
    /\ built # {} => launched
    /\ \A c \in AllCallers :
         (pc[c] # "idle" \/ trace[c] # << >> \/ ncalls[c] > 0) =>
             (launched /\ nworkers = NUM_CPU /\ kind[c] \in built)
    /\ (queue # << >> \/ ready \/ completed > 0) => launched

\* C16's case: a dispatch round of a built gufunc has made all its add_task
\* calls and its ready call, and waits in synchronize.
C16_Witness ==
    /\ pc[1] = "sync"
    /\ kind[1] = "gufunc"
    /\ Len(trace[1]) = NUM_CPU + 1
    /\ launched

\* C17: for every total >= 0 and NUM_CPU >= 1 in the intp range the running
\* remainder of the partitioning loop never goes below zero and never wraps:
\* after k subtractions (0 <= k <= NUM_CPU - 1) it is
\* total - k * floor(total / NUM_CPU) >= 0, and the last chunk's count is
\* floor(total / NUM_CPU) + total mod NUM_CPU, fewer than NUM_CPU elements
\* above the uniform count.
C17_RemainderNeverWraps ==
    \A c \in AllCallers : Distributed(c) =>
        LET total == TotalOf(c)
            T == NUM_CPU
            q == total \div T
        IN /\ ToSigned(count[c]) = q
           /\ \A k \in 0 .. T - 1 :
                /\ Remain(total, count[c], k) = total - k * q
                /\ ToSigned(Remain(total, count[c], k)) >= 0
           /\ CountOf(c, T) = q + (total % T)
           /\ CountOf(c, T) - q < T

\* C17's case: the counts are stored for the largest total of the range,
\* split over several threads with elements left over.
C17_Witness ==
    /\ Distributed(1)
    /\ TotalOf(1) = IntpMax
    /\ NUM_CPU > 1
    /\ IntpMax % NUM_CPU # 0

\* The tasks of thread c's round each reference their own pointer array and
\* their own dimension buffer, those of their chunk in c's frame, and all of
\* them the same kernel, the caller's steps array and the caller's data.
TasksOwnSlots(c) ==
    /\ \A t \in HeldTasks(c) :
         /\ t.args = << c, t.chunk >>
         /\ t.dims = << c, t.chunk >>
         /\ t.kernel = kind[c]
         /\ t.steps = c
         /\ t.data = data[c]
    /\ \A t1, t2 \in HeldTasks(c) :
         t1.chunk # t2.chunk => (t1.args # t2.args /\ t1.dims # t2.dims)

\* C18: a dispatch call leaves the caller's args, dimensions and steps arrays
\* (and data) unchanged; its own steps write nothing but its per-task pointer
\* arrays and dimension buffers, never array memory; each task gets a pair of
\* its own, shared with no other task; and all NUM_CPU tasks are passed the
\* same kernel, steps and data pointers.
C18_CallerArraysUntouched ==
    [][ \A c \in AllCallers :
          /\ pc[c] # "idle" =>
               /\ args'[c] = args[c]
               /\ dimensions'[c] = dimensions[c]
               /\ steps'[c] = steps[c]
               /\ data'[c] = data[c]
               /\ nargs'[c] = nargs[c]
          /\ (pc[c] # "idle" /\ pc'[c] # pc[c]) =>
               (mem' = mem /\ wcount' = wcount)
          /\ TasksOwnSlots(c)' ]_vars

\* C18's case: all the tasks of a round of several chunks are in the queue.
C18_Witness ==
    /\ pc[1] = "ready"
    /\ NUM_CPU > 1
    /\ Len(queue) = NUM_CPU
    /\ \A k \in 1 .. NUM_CPU : queue[k].args = << 1, k >>

\* C19: the CAS function is registered with the pool (set_cas with the
\* non-null generated pointer, in _init) before the first launch_threads call
\* on every path - the eager launch of the toggle, with the variable set or
\* on python2.6 64-bit linux, and the launches of the two build methods: the
\* step that launches the pool starts after _init has completed, with the
\* pointer registered, and no build or launch happens before _init.
C19_CasRegisteredBeforeLaunch ==
    [][ /\ (~launched /\ launched') =>
             /\ mpc \in {"toggle", "main"}
             /\ setcas_log = << CasPtr >>
             /\ cas = CasPtr /\ cas # 0
             /\ cas' = cas
             /\ engine = "live"
        /\ mpc' = "init" => (~launched' /\ built' = {})
        /\ launched' => (Len(setcas_log') >= 1 /\ setcas_log'[1] # 0) ]_vars

\* C19's case: the pool was launched eagerly by the module body, no wrapper
\* built yet.
C19_Witness ==
    /\ launched
    /\ built = {}
    /\ mpc = "main"
    /\ cas = CasPtr
    /\ nworkers = NUM_CPU

====
